---------------------------- MODULE Spec2Model ----------------------------
(***************************************************************************)
(* Ladder diagram renderer (SubrDispControl) and symbol library            *)
(* (LadSymbols) of mblogic-cl.                                             *)
(*                                                                         *)
(* The rendered document is modelled as a tree of records.  A JavaScript   *)
(* string is a sequence of tokens: a token is either an atomic run of      *)
(* ordinary characters ("X1"), the comma COMMA, the space SPACE or the     *)
(* double quote QUOTE, so that join, split and the writing of an attribute *)
(* value into markup are computed and not assumed.                         *)
(***************************************************************************)
EXTENDS Integers, Sequences, FiniteSets, TLC

VARIABLES
    currentProgram,    \* SubrDispControl.currentProgram
    currentAddresses,  \* SubrDispControl.currentAddresses
    container,         \* children of the display container element
    call,              \* the last call made on the public API and its outcome
    rung,              \* argument of createRungHtml (layout specification)
    rungHtml           \* value of createRungHtml(rung), or "pending"

vars == <<currentProgram, currentAddresses, container, call, rung, rungHtml>>

-----------------------------------------------------------------------------
(* Bounds of the model *)

MaxRows  == 2    \* largest declared rows of a layout rung
MaxCols  == 3    \* largest declared cols of a layout rung
MaxCells == 2    \* longest cell list of a layout rung

-----------------------------------------------------------------------------
(* Strings *)

COMMA == ","
SPACE == " "
QUOTE == "\""

\* The empty string ''.
EmptyStr == <<>>

\* A string of one atomic run of characters.
Str(tok) == <<tok>>

RECURSIVE JoinFrom(_, _, _)
JoinFrom(arr, sep, i) ==
    IF i > Len(arr) THEN <<>>
    ELSE IF i = Len(arr) THEN arr[i]
    ELSE arr[i] \o <<sep>> \o JoinFrom(arr, sep, i + 1)

\* Array.prototype.join(sep)
Join(arr, sep) == JoinFrom(arr, sep, 1)

RECURSIVE SplitFrom(_, _, _, _)
SplitFrom(s, sep, i, cur) ==
    IF i > Len(s) THEN <<cur>>
    ELSE IF s[i] = sep THEN <<cur>> \o SplitFrom(s, sep, i + 1, <<>>)
    ELSE SplitFrom(s, sep, i + 1, Append(cur, s[i]))

\* String.prototype.split(sep): ''.split(',') is [''].
Split(s, sep) == SplitFrom(s, sep, 1, <<>>)

\* Array.prototype.filter(a => a) on an array of strings: drops ''.
FilterNonEmpty(arr) == SelectSeq(arr, LAMBDA a : a # EmptyStr)

\* Array.prototype.slice(0, n)
SliceTo(arr, n) == SubSeq(arr, 1, IF Len(arr) < n THEN Len(arr) ELSE n)

RECURSIVE UpToQuote(_, _)
UpToQuote(s, i) ==
    IF i > Len(s) \/ s[i] = QUOTE THEN <<>>
    ELSE <<s[i]>> \o UpToQuote(s, i + 1)

\* escapeHtml(str) written between double quotes in the markup and read back
\* by the HTML parser as an attribute value.  textContent -> innerHTML
\* escapes & < > (which the parser decodes again) but not the double quote,
\* which ends the attribute value.
AttrValue(s) == UpToQuote(s, 1)

\* escapeHtml(str) written as element content and read back: unchanged.
TextContent(s) == s

-----------------------------------------------------------------------------
(* LadSymbols *)

StateTags == {"MB_ladderoff", "MB_ladderon"}

\* The element names of the primitives of each entry of `symbols`, in order.
SymbolPrims ==
    [noc     |-> <<"line", "line", "line", "line">>,
     ncc     |-> <<"line", "line", "line", "line", "line">>,
     nocpd   |-> <<"line", "line", "line", "text", "line">>,
     nocnd   |-> <<"line", "line", "line", "text", "line">>,
     out     |-> <<"line", "circle", "line">>,
     set     |-> <<"line", "circle", "text", "line">>,
     rst     |-> <<"line", "circle", "text", "line">>,
     pd      |-> <<"line", "circle", "text", "line">>,
     compare |-> <<"line", "rect", "text", "line">>,
     hline   |-> <<"line">>,
     empty   |-> <<"line">>,
     il      |-> <<"line", "rect", "text", "line">>]

\* symbols.tmr = symbols.compare; ... symbols.next = symbols.compare
CompareAliases ==
    {"tmr", "tmra", "tmroff", "cntu", "cntd", "udc", "copy", "cpyblk",
     "fill", "pack", "unpack", "shfrg", "findeq", "mathdec", "mathhex",
     "sum", "call", "rt", "end", "for", "next"}

\* Own properties of the `symbols` object.
SymbolNames == DOMAIN SymbolPrims \cup CompareAliases

\* Properties every object inherits from Object.prototype that are functions.
ObjectProtoFunctions ==
    {"toString", "valueOf", "constructor", "hasOwnProperty", "toLocaleString"}

\* Those of them that throw a TypeError when called as a plain function of
\* strict code (this is undefined): toString and constructor return a value.
ObjectProtoThrows == {"valueOf", "hasOwnProperty", "toLocaleString"}

\* wrapSvg(content, stateClass): the svg element and its primitives.
wrapSvg(prims, stateClass) ==
    [node    |-> "svg",
     classes |-> {"ladder-symbol", stateClass},
     prims   |-> [i \in 1..Len(prims) |->
                     [node |-> prims[i], classes |-> {stateClass}]]]

\* symbols[name](stateClass) for an own property of `symbols`.
SymbolFn(name, stateClass) ==
    wrapSvg(IF name \in CompareAliases THEN SymbolPrims.compare
            ELSE SymbolPrims[name], stateClass)

\* getSymbol(symbolName, stateClass).  symbols[symbolName] also finds the
\* functions inherited from Object.prototype: the call of one of them
\* throws, or returns a plain string that is no svg markup.  A thrown
\* TypeError is the node "TypeError".
getSymbol(symbolName, stateClass) ==
    IF symbolName \in SymbolNames THEN SymbolFn(symbolName, stateClass)
    ELSE IF symbolName \in ObjectProtoThrows
         THEN [node |-> "TypeError", classes |-> {}, prims |-> <<>>]
    ELSE IF symbolName \in ObjectProtoFunctions
         THEN [node |-> "#text", classes |-> {}, prims |-> <<>>]
    ELSE SymbolFn("il", stateClass)

\* The closed set of block instruction identifiers: the blockSymbols list of
\* the renderer variant that tests the symbol itself.  The grid renderer
\* delegates the test to LadSymbols.isBlockSymbol; the public API of the
\* LadSymbols module at hand (getSymbol, getSymbolNames, WIDTH, HEIGHT)
\* does not list that function, so the list is taken from the variant.
BlockSymbols ==
    {"compare", "tmr", "tmra", "tmroff", "cntu", "cntd", "udc",
     "copy", "cpyblk", "fill", "pack", "unpack", "shfrg",
     "findeq", "mathdec", "mathhex", "sum",
     "call", "rt", "end", "for", "next"}

isBlockSymbol(symbol) == symbol \in BlockSymbols

-----------------------------------------------------------------------------
(* SubrDispControl: markup of one cell *)

\* obj.name || dflt, for a field that is absent or holds a truthy value or
\* the default itself.
Field(obj, name, dflt) == IF name \in DOMAIN obj THEN obj[name] ELSE dflt

NoText == <<"#none">>

\* The call LadSymbols.getSymbol(symbol, 'MB_ladderoff') of the markup of a
\* cell throws.
CellThrows(cell) == Field(cell, "symbol", "il") \in ObjectProtoThrows

\* createCellHtml(cell), as the element the HTML parser builds from it, or
\* the TypeError that the call of getSymbol throws.
createCellHtml(cell) ==
    LET symbol    == Field(cell, "symbol", "il")
        address   == Field(cell, "addr", EmptyStr)
        addresses == Field(cell, "addrs", <<>>)
        opcode    == Field(cell, "opcode", EmptyStr)
        params    == Field(cell, "params", <<>>)
        cellType  == Field(cell, "type", "unknown")
        isBlock   == isBlockSymbol(symbol) \/ cellType = "block"
        row       == Field(cell, "row", 0)
        col       == Field(cell, "col", 0)
        svgHtml   == getSymbol(symbol, "MB_ladderoff")
        addressDisplay ==
            IF address # EmptyStr THEN TextContent(address)
            ELSE IF Len(addresses) > 0 THEN TextContent(addresses[1])
            ELSE NoText
        paramsDisplay ==
            IF isBlock /\ Len(params) > 0
            THEN TextContent(Join(SliceTo(params, 4), SPACE))
            ELSE NoText
    IN  IF CellThrows(cell) THEN [node |-> "TypeError"] ELSE
        [node       |-> "div",
         id         |-> <<"cell", row, col>>,
         classes    |-> (IF isBlock THEN {"ladder-cell", "ladder-block-cell"}
                         ELSE {"ladder-cell"}) \cup {"MB_ladderoff"},
         hasDataAddresses |-> Len(addresses) > 0,
         dataAddresses    |-> IF Len(addresses) > 0
                              THEN AttrValue(Join(addresses, COMMA))
                              ELSE EmptyStr,
         dataOpcode |-> AttrValue(opcode),
         dataRow    |-> row,
         dataCol    |-> col,
         svg        |-> svgHtml,
         paramsDisplay  |-> paramsDisplay,
         addressDisplay |-> addressDisplay,
         cellValue  |-> [textContent |-> EmptyStr, display |-> ""]]

\* createSpacerHtml(row, col)
createSpacerHtml(row, col) ==
    [node    |-> "div",
     classes |-> {"ladder-spacer"},
     dataRow |-> row,
     dataCol |-> col,
     svg     |-> getSymbol("hline", "MB_ladderoff")]

\* The inert placeholder <div class="ladder-empty">.
createEmptyHtml(row, col) ==
    [node    |-> "div",
     classes |-> {"ladder-empty"},
     dataRow |-> row,
     dataCol |-> col]

\* createBranchConnector(col, startRow, endRow)
createBranchConnector(col, startRow, endRow) ==
    [node         |-> "div",
     classes      |-> {"branch-connector"},
     dataCol      |-> col,
     dataStartRow |-> startRow,
     dataEndRow   |-> endRow]

-----------------------------------------------------------------------------
(* SubrDispControl: layout of one rung *)

\* Mutant of RowsOf: a rung without rows gets two rows.
RowsOfDefaultTwo(r) == IF Field(r, "rows", 0) = 0 THEN 2 ELSE r.rows

\* rung.rows || 1 and rung.cols || 1
RowsOf(r) == IF Field(r, "rows", 0) = 0 THEN 1 ELSE r.rows
ColsOf(r) == IF Field(r, "cols", 0) = 0 THEN 1 ELSE r.cols

\* The grid holds references to the cell objects: the index of the cell in
\* rung.cells, 0 for null.  Its domain is the rows x cols array elements and
\* every further property that an assignment grid[row][col] = cell creates
\* on a row array (a negative col).
EmptyGrid(rows, cols) == [p \in (0..(rows - 1)) \X (0..(cols - 1)) |-> 0]

GridAt(grid, r, c) == IF <<r, c>> \in DOMAIN grid THEN grid[<<r, c>>] ELSE 0

GridSet(grid, r, c, i) ==
    [p \in DOMAIN grid \cup {<<r, c>>} |-> IF p = <<r, c>> THEN i ELSE grid[p]]

\* Set.prototype.add, the set kept in insertion order.
SetAdd(seq, x) == IF \E k \in 1..Len(seq) : seq[k] = x THEN seq ELSE Append(seq, x)

\* Mutant of InGrid: the column is not compared with cols.
InGridRowOnly(row, col, rows, cols) == row < rows

\* The guard  row < rows && col < cols  of the placement.
InGrid(row, col, rows, cols) == row < rows /\ col < cols

\* cells.forEach(cell => { ... }) of createRungHtml, from cell i on.
\* grid[row] is undefined for a row outside 0..rows-1, and the assignment
\* grid[row][col] = cell then throws a TypeError.
RECURSIVE PlaceCells(_, _, _, _, _, _)
PlaceCells(cells, i, grid, branchCols, rows, cols) ==
    IF i > Len(cells)
    THEN [threw |-> FALSE, grid |-> grid, branchCols |-> branchCols]
    ELSE LET row == Field(cells[i], "row", 0)
             col == Field(cells[i], "col", 0)
         IN  IF InGrid(row, col, rows, cols)
             THEN IF row \notin 0..(rows - 1)
                  THEN [threw |-> TRUE, grid |-> grid, branchCols |-> branchCols]
                  ELSE PlaceCells(cells, i + 1, GridSet(grid, row, col, i),
                                  IF row > 0 THEN SetAdd(branchCols, col)
                                  ELSE branchCols,
                                  rows, cols)
             ELSE PlaceCells(cells, i + 1, grid, branchCols, rows, cols)

\* Mutant of hasLaterContent: the scan starts at column 0.
hasAnyContent(grid, r, c, cols) ==
    \E cc \in 0..(cols - 1) : GridAt(grid, r, cc) # 0

\* The inner loop over cc of createRungHtml.
hasLaterContent(grid, r, c, cols) ==
    \E cc \in (c + 1)..(cols - 1) : GridAt(grid, r, cc) # 0

\* The body of the loop over c of createRungHtml: the entry at (r, c).
RowEntry(cells, grid, branchCols, r, c, cols) ==
    IF GridAt(grid, r, c) # 0 THEN createCellHtml(cells[GridAt(grid, r, c)])
    ELSE IF r = 0 THEN createSpacerHtml(r, c)
    ELSE IF hasLaterContent(grid, r, c, cols)
            \/ (\E k \in 1..Len(branchCols) : branchCols[k] = c)
         THEN createSpacerHtml(r, c)
    ELSE createEmptyHtml(r, c)

\* The body of the loop over r of createRungHtml: one row block.
RowHtml(cells, grid, branchCols, r, cols) ==
    [node    |-> "div",
     classes |-> IF r = 0 THEN {"ladder-row", "ladder-row-main"}
                 ELSE {"ladder-row", "ladder-row-branch"},
     dataRow |-> r,
     entries |-> [k \in 1..cols |->
                     RowEntry(cells, grid, branchCols, r, k - 1, cols)]]

\* Mutant of MaxRowAt: the scan stops at the first row that holds a cell.
FirstRowAt(grid, col, rows) ==
    LET held == {r \in 0..(rows - 1) : GridAt(grid, r, col) # 0}
    IN  IF held = {} THEN 0 ELSE CHOOSE r \in held : \A q \in held : r <= q

\* maxRow of the loop over r inside branchCols.forEach.
MaxRowAt(grid, col, rows) ==
    LET held == {r \in 0..(rows - 1) : GridAt(grid, r, col) # 0}
    IN  IF held = {} THEN 0 ELSE CHOOSE r \in held : \A q \in held : q <= r

\* branchCols.forEach(col => { ... }) of createRungHtml, from entry k on.
RECURSIVE Connectors(_, _, _, _)
Connectors(grid, branchCols, k, rows) ==
    IF k > Len(branchCols) THEN <<>>
    ELSE LET col    == branchCols[k]
             minRow == 0
             maxRow == MaxRowAt(grid, col, rows)
         IN  (IF maxRow > minRow
              THEN <<createBranchConnector(col, minRow, maxRow)>>
              ELSE <<>>) \o Connectors(grid, branchCols, k + 1, rows)

\* createRungHtml(rung): the rung element, or the TypeError it throws.
createRungHtml(r) ==
    LET cells  == Field(r, "cells", <<>>)
        rows   == RowsOf(r)
        cols   == ColsOf(r)
        placed == PlaceCells(cells, 1, EmptyGrid(rows, cols), <<>>, rows, cols)
    IN  IF placed.threw THEN [status |-> "TypeError"]
        ELSE IF \E r0 \in 0..(rows - 1), c0 \in 0..(cols - 1) :
                    /\ GridAt(placed.grid, r0, c0) # 0
                    /\ CellThrows(cells[GridAt(placed.grid, r0, c0)])
        THEN [status |-> "TypeError"]
        ELSE [status     |-> "ok",
              node       |-> "div",
              classes    |-> {"ladder-rung"},
              id         |-> <<"rung", Field(r, "rungnum", 0)>>,
              dataRows   |-> rows,
              dataCols   |-> cols,
              comment    |-> IF Field(r, "comment", EmptyStr) # EmptyStr
                             THEN TextContent(r.comment) ELSE NoText,
              rows       |-> [k \in 1..rows |->
                                 RowHtml(cells, placed.grid, placed.branchCols,
                                         k - 1, cols)],
              connectors |-> Connectors(placed.grid, placed.branchCols, 1, rows)]

-----------------------------------------------------------------------------
(* SubrDispControl: program state, rung list and rendering *)

\* The value null of programData and of currentProgram.
Null == [isNull |-> TRUE]

\* setProgram(programData): the new <<currentProgram, currentAddresses>>.
setProgram(programData, addrsBefore) ==
    <<programData,
      IF programData # Null /\ "addresses" \in DOMAIN programData
      THEN programData.addresses ELSE addrsBefore>>

NoProgramHtml ==
    [node |-> "div", classes |-> {"no-program"}, text |-> Str("No Program Loaded")]

ErrorHtml(msg) ==
    [node |-> "div", classes |-> {"error-message"}, text |-> TextContent(msg)]

NoRungsHtml ==
    [node |-> "div", classes |-> {"no-program"},
     text |-> Str("No rungs in this subroutine")]

\* rungs.forEach(rung => { html += createRungHtml(rung); }), from rung k on.
RECURSIVE RungsHtml(_, _)
RungsHtml(rungs, k) ==
    IF k > Len(rungs) THEN [status |-> "ok", children |-> <<>>]
    ELSE LET first == createRungHtml(rungs[k])
         IN  IF first.status # "ok" THEN [status |-> first.status]
             ELSE LET rest == RungsHtml(rungs, k + 1)
                  IN  IF rest.status # "ok" THEN rest
                      ELSE [status |-> "ok", children |-> <<first>> \o rest.children]

\* Mutant of createRungList: the test for an empty rung list is left out.
createRungListNoEmptyTest(programData) ==
    IF programData = Null \/ "subrdata" \notin DOMAIN programData
    THEN [status |-> "ok", children |-> <<NoProgramHtml>>]
    ELSE IF Field(programData, "error", EmptyStr) # EmptyStr
    THEN [status |-> "ok", children |-> <<ErrorHtml(programData.error)>>]
    ELSE RungsHtml(programData.subrdata, 1)

\* createRungList(programData) after its call of setProgram: the elements
\* the returned markup parses to, or the error thrown.
createRungList(programData) ==
    IF programData = Null \/ "subrdata" \notin DOMAIN programData
    THEN [status |-> "ok", children |-> <<NoProgramHtml>>]
    ELSE IF Field(programData, "error", EmptyStr) # EmptyStr
    THEN [status |-> "ok", children |-> <<ErrorHtml(programData.error)>>]
    ELSE IF Len(programData.subrdata) = 0
    THEN [status |-> "ok", children |-> <<NoRungsHtml>>]
    ELSE RungsHtml(programData.subrdata, 1)

-----------------------------------------------------------------------------
(* SubrDispControl: live update *)

\* Values of an address map.  A number is held in thousandths.
BoolValue(b) == [t |-> "boolean", b |-> b]
NumValue(n)  == [t |-> "number", n |-> n]
StrValue(s)  == [t |-> "string", s |-> s]
NullValue    == [t |-> "null"]

Abs(n) == IF n < 0 THEN 0 - n ELSE n

\* formatValue(value): the text shown for a display value.
formatValue(value) ==
    IF value.t = "number"
    THEN IF value.n % 1000 = 0
         THEN <<ToString(value.n \div 1000)>>
         ELSE LET h == (Abs(value.n) + 5) \div 10
              IN  (IF value.n < 0 THEN <<"-">> ELSE <<>>)
                    \o <<ToString(h \div 100), ".",
                         ToString((h % 100) \div 10), ToString(h % 10)>>
    ELSE value.s

\* Mutant of ScanStep: a numeric zero turns the cell on like any number.
ScanStepAnyNumber(value, isOn, displayValue) ==
    IF value.t = "boolean" THEN [isOn |-> isOn \/ value.b, displayValue |-> displayValue]
    ELSE IF value.t = "number" THEN [isOn |-> TRUE, displayValue |-> value]
    ELSE IF value.t # "null" THEN [isOn |-> isOn, displayValue |-> value]
    ELSE [isOn |-> isOn, displayValue |-> displayValue]

\* The effect of one value found in dataValues on isOn and displayValue.
ScanStep(value, isOn, displayValue) ==
    IF value.t = "boolean" THEN [isOn |-> isOn \/ value.b, displayValue |-> displayValue]
    ELSE IF value.t = "number" THEN [isOn |-> isOn \/ value.n # 0, displayValue |-> value]
    ELSE IF value.t # "null" THEN [isOn |-> isOn, displayValue |-> value]
    ELSE [isOn |-> isOn, displayValue |-> displayValue]

\* addresses.forEach(addr => { ... }) of updateCellStates, from address k on,
\* with the isOn and displayValue reached so far.
RECURSIVE ScanAddresses(_, _, _, _, _)
ScanAddresses(addresses, k, dataValues, isOn, displayValue) ==
    IF k > Len(addresses) THEN [isOn |-> isOn, displayValue |-> displayValue]
    ELSE IF addresses[k] \notin DOMAIN dataValues
    THEN ScanAddresses(addresses, k + 1, dataValues, isOn, displayValue)
    ELSE LET step == ScanStep(dataValues[addresses[k]], isOn, displayValue)
         IN  ScanAddresses(addresses, k + 1, dataValues, step.isOn, step.displayValue)

\* Mutant of SetStateTag: classList.toggle(tag) in place of remove and add.
ToggleStateTag(classes, tag) ==
    IF tag \in classes THEN classes \ {tag} ELSE classes \cup {tag}

\* classList.remove('MB_ladderoff', 'MB_ladderon'); classList.add(tag)
SetStateTag(classes, tag) == (classes \ StateTags) \cup {tag}

\* Mutant of UpdateSvg: the selector of the descendants is 'line, circle'.
UpdateSvgLinesOnly(svg, tag) ==
    IF svg.node # "svg" THEN svg
    ELSE [svg EXCEPT
            !.classes = SetStateTag(svg.classes, tag),
            !.prims = [i \in DOMAIN svg.prims |->
                         IF svg.prims[i].node \in {"line", "circle"}
                         THEN [svg.prims[i] EXCEPT
                                 !.classes = SetStateTag(svg.prims[i].classes, tag)]
                         ELSE svg.prims[i]]]

\* The update of the svg of a cell and of its line, circle, rect and text
\* descendants; a cell without svg element is left alone.
UpdateSvg(svg, tag) ==
    IF svg.node # "svg" THEN svg
    ELSE [svg EXCEPT
            !.classes = SetStateTag(svg.classes, tag),
            !.prims = [i \in DOMAIN svg.prims |->
                         IF svg.prims[i].node \in {"line", "circle", "rect", "text"}
                         THEN [svg.prims[i] EXCEPT
                                 !.classes = SetStateTag(svg.prims[i].classes, tag)]
                         ELSE svg.prims[i]]]

\* Mutant of SetCellValue: the value element is shown for a truthy
\* displayValue only, so that a zero is hidden.
SetCellValueTruthy(cellValue, displayValue) ==
    IF displayValue # NullValue /\ displayValue # [t |-> "number", n |-> 0]
    THEN [textContent |-> formatValue(displayValue), display |-> "block"]
    ELSE [cellValue EXCEPT !.display = "none"]

\* The update of the .cell-value element: written and shown for a
\* displayValue other than null, hidden otherwise.
SetCellValue(cellValue, displayValue) ==
    IF displayValue # NullValue
    THEN [textContent |-> formatValue(displayValue), display |-> "block"]
    ELSE [cellValue EXCEPT !.display = "none"]

\* The body of the forEach of updateCellStates for one .ladder-cell element.
UpdateCell(cell, dataValues) ==
    IF ~cell.hasDataAddresses \/ cell.dataAddresses = EmptyStr THEN cell
    ELSE LET addresses == FilterNonEmpty(Split(cell.dataAddresses, COMMA))
         IN  IF Len(addresses) = 0 THEN cell
             ELSE LET scan == ScanAddresses(addresses, 1, dataValues, FALSE, NullValue)
                      tag  == IF scan.isOn THEN "MB_ladderon" ELSE "MB_ladderoff"
                  IN  [cell EXCEPT
                         !.classes = SetStateTag(cell.classes, tag),
                         !.svg = UpdateSvg(cell.svg, tag),
                         !.cellValue = SetCellValue(cell.cellValue,
                                                    scan.displayValue)]

\* document.querySelectorAll('.ladder-cell').forEach(...) on one child of
\* the container.
UpdateElement(el, dataValues) ==
    IF "ladder-rung" \notin el.classes THEN el
    ELSE [el EXCEPT !.rows =
            [r \in DOMAIN el.rows |->
                [el.rows[r] EXCEPT !.entries =
                    [c \in DOMAIN el.rows[r].entries |->
                        IF "ladder-cell" \in el.rows[r].entries[c].classes
                        THEN UpdateCell(el.rows[r].entries[c], dataValues)
                        ELSE el.rows[r].entries[c]]]]]

-----------------------------------------------------------------------------
(* Layout specification: createRungHtml applied to one rung *)

Pending == [status |-> "pending"]

\* Cells of a layout rung: integer coordinates in and out of range, negative
\* ones included, and a cell that declares no coordinates at all.
LayoutCells ==
    {[row |-> r, col |-> c] : r \in (-1)..MaxRows, c \in (-1)..MaxCols}
        \cup {[symbol |-> "noc"]}

\* A rung with its declared rows and cols; 0 stands for a field the rung
\* does not carry.
LayoutRung(r, c, cs) ==
    IF r = 0 /\ c = 0 THEN [rungnum |-> 1, cells |-> cs]
    ELSE IF r = 0 THEN [rungnum |-> 1, cols |-> c, cells |-> cs]
    ELSE IF c = 0 THEN [rungnum |-> 1, rows |-> r, cells |-> cs]
    ELSE [rungnum |-> 1, rows |-> r, cols |-> c, cells |-> cs]

Idle ==
    /\ currentProgram = Null
    /\ currentAddresses = <<>>
    /\ container = <<>>
    /\ call = [op |-> "none"]

InitLayout ==
    /\ Idle
    /\ \E r \in 0..MaxRows, c \in 0..MaxCols, n \in 0..MaxCells :
          \E cs \in [1..n -> LayoutCells] : rung = LayoutRung(r, c, cs)
    /\ rungHtml = Pending

CreateRungHtml ==
    /\ rungHtml = Pending
    /\ rungHtml' = createRungHtml(rung)
    /\ UNCHANGED <<currentProgram, currentAddresses, container, call, rung>>

NextLayout == CreateRungHtml

SpecLayout == InitLayout /\ [][NextLayout]_vars

-----------------------------------------------------------------------------
(* Display specification: renderToContainer and updateCellStates *)

MaxSpecCells == 2    \* longest cell list of a rendered rung

X1 == Str("X1")
Y1 == Str("Y1")

\* Cells as the program server describes them, without their coordinates:
\* contacts and coils that name their address in `addr`, and cells that list
\* the addresses they monitor in `addrs`.
SpecCells ==
    {[symbol |-> "noc", addr |-> X1],
     [addrs |-> <<X1>>],
     [symbol |-> "compare", type |-> "block", addrs |-> <<X1, Y1>>]}

\* The cell with the coordinates (row, col).
CellAt(cell, row, col) ==
    [f \in DOMAIN cell \cup {"row", "col"} |->
        IF f = "row" THEN row ELSE IF f = "col" THEN col ELSE cell[f]]

\* The one-row rung that holds the cells cs in columns 0, 1, ...
SpecRung(cs) ==
    [rungnum |-> 1, rows |-> 1, cols |-> IF Len(cs) = 0 THEN 1 ELSE Len(cs),
     cells |-> [j \in 1..Len(cs) |-> CellAt(cs[j], 0, j - 1)]]

SpecRungs == {SpecRung(cs) : cs \in UNION {[1..n -> SpecCells] : n \in 0..MaxSpecCells}}

CompileFailed == Str("compile failed")

\* The two-cell program of the documented scenario: X1 --| |-- Y1 --( )--
ScenarioProgram ==
    [subrdata |-> <<[rungnum |-> 1, rows |-> 1, cols |-> 2,
                     cells |-> <<[row |-> 0, col |-> 0, symbol |-> "noc", addr |-> X1],
                                 [row |-> 0, col |-> 1, symbol |-> "out", addr |-> Y1]>>]>>]

\* Program data: absent, an error report with and without rung list, an
\* empty rung list without and with address list, the scenario, and one-rung
\* programs.
SpecPrograms ==
    {Null,
     ScenarioProgram,
     [error |-> CompileFailed],
     [error |-> CompileFailed, subrdata |-> <<SpecRung(<<[addrs |-> <<X1>>]>>)>>],
     [subrdata |-> <<>>],
     [addresses |-> <<X1>>, subrdata |-> <<>>]}
      \cup {[addresses |-> <<X1, Y1>>, subrdata |-> <<r>>] : r \in SpecRungs}

DataValueSet ==
    {BoolValue(TRUE), BoolValue(FALSE), NumValue(0), NumValue(1500),
     NullValue, StrValue(Str("run"))}

\* Address maps: every assignment of values to a subset of the addresses.
DataValueMaps == UNION {[K -> DataValueSet] : K \in SUBSET {X1, Y1}}

Init ==
    /\ Idle
    /\ rung = [rungnum |-> 0]
    /\ rungHtml = Pending

\* Mutant of RenderToContainer: innerHTML is assigned only when the program
\* data differs from the current program.
RenderToContainerIfChanged(containerId, programData) ==
    LET html == createRungList(programData)
        prog == setProgram(programData, currentAddresses)
    IN  IF containerId # "ladder-display"
        THEN /\ call' = [op |-> "renderToContainer", found |-> FALSE]
             /\ UNCHANGED <<currentProgram, currentAddresses, container,
                            rung, rungHtml>>
        ELSE /\ currentProgram' = prog[1]
             /\ currentAddresses' = prog[2]
             /\ container' = IF html.status = "ok" /\ programData # currentProgram
                             THEN html.children ELSE container
             /\ call' = [op |-> "renderToContainer", found |-> TRUE,
                         programData |-> programData,
                         threw |-> html.status # "ok"]
             /\ UNCHANGED <<rung, rungHtml>>

\* renderToContainer(containerId, programData).  The document has the one
\* container "ladder-display"; for any other id nothing is called.  When
\* createRungList throws, setProgram has been called and innerHTML is not
\* assigned.
RenderToContainer(containerId, programData) ==
    LET html == createRungList(programData)
        prog == setProgram(programData, currentAddresses)
    IN  IF containerId # "ladder-display"
        THEN /\ call' = [op |-> "renderToContainer", found |-> FALSE]
             /\ UNCHANGED <<currentProgram, currentAddresses, container,
                            rung, rungHtml>>
        ELSE /\ currentProgram' = prog[1]
             /\ currentAddresses' = prog[2]
             /\ container' = IF html.status = "ok" THEN html.children ELSE container
             /\ call' = [op |-> "renderToContainer", found |-> TRUE,
                         programData |-> programData,
                         threw |-> html.status # "ok"]
             /\ UNCHANGED <<rung, rungHtml>>

\* updateCellStates(dataValues)
UpdateCellStates(dataValues) ==
    /\ container' = [k \in DOMAIN container |->
                        UpdateElement(container[k], dataValues)]
    /\ call' = [op |-> "updateCellStates", dataValues |-> dataValues]
    /\ UNCHANGED <<currentProgram, currentAddresses, rung, rungHtml>>

Next ==
    \/ \E p \in SpecPrograms : RenderToContainer("ladder-display", p)
    \/ RenderToContainer("missing", Null)
    \/ \E m \in DataValueMaps : UpdateCellStates(m)

Spec == Init /\ [][Next]_vars

-----------------------------------------------------------------------------
(* Properties of the layout *)

\* The rung as declared: cell list, rows and cols with the documented
\* default of 1, and the coordinates of a cell with the default of 0.
DeclCells == IF "cells" \in DOMAIN rung THEN rung.cells ELSE <<>>
DeclRows  == IF "rows" \in DOMAIN rung THEN rung.rows ELSE 1
DeclCols  == IF "cols" \in DOMAIN rung THEN rung.cols ELSE 1
CellRow(c) == IF "row" \in DOMAIN c THEN c.row ELSE 0
CellCol(c) == IF "col" \in DOMAIN c THEN c.col ELSE 0

Rendered == rungHtml.status = "ok"

\* The cell lies inside [0,rows) x [0,cols).
InRange(c) ==
    /\ 0 <= CellRow(c) /\ CellRow(c) < DeclRows
    /\ 0 <= CellCol(c) /\ CellCol(c) < DeclCols

\* The cell lies at or beyond the declared rows or cols.
Beyond(c) == CellRow(c) >= DeclRows \/ CellCol(c) >= DeclCols

\* The cell has a place in the grid of a rendered rung: it is not beyond the
\* declared rows and cols (a rendered rung has no cell at a negative row).
Placed(c) == ~Beyond(c)

PlacedAt(r, c) ==
    {i \in 1..Len(DeclCells) :
        Placed(DeclCells[i]) /\ CellRow(DeclCells[i]) = r /\ CellCol(DeclCells[i]) = c}

\* The columns that hold a placed cell at some row > 0.
BranchColumns ==
    {CellCol(DeclCells[i]) : i \in {j \in 1..Len(DeclCells) :
        Placed(DeclCells[j]) /\ CellRow(DeclCells[j]) > 0}}

\* The largest row at which column c holds a placed cell.
TopRow(c) ==
    LET held == {CellRow(DeclCells[i]) : i \in {j \in 1..Len(DeclCells) :
                    Placed(DeclCells[j]) /\ CellCol(DeclCells[j]) = c}}
    IN  CHOOSE r \in held : \A q \in held : q <= r

RungWithout(Drop(_)) ==
    [rung EXCEPT !.cells = SelectSeq(rung.cells, LAMBDA c : ~Drop(c))]

\* C5 (as claimed): createRungHtml never fails, and a cell outside
\* [0,rows) x [0,cols), a negative row or column included, is omitted: the
\* rung renders exactly as it does without these cells.
C5_OutOfRangeDropped ==
    rungHtml # Pending =>
        /\ rungHtml.status = "ok"
        /\ rungHtml = createRungHtml(RungWithout(LAMBDA c : ~InRange(c)))

\* C6: a cell at a row >= rows or a column >= cols is omitted without error:
\* the outcome is the outcome for the rung without these cells (so the cell
\* adds no element, no filler and no connector), and the rung renders when
\* every other cell is in range.
C6_BeyondOmitted ==
    rungHtml # Pending =>
        /\ rungHtml = createRungHtml(RungWithout(Beyond))
        /\ (\A i \in 1..Len(DeclCells) :
                Beyond(DeclCells[i]) \/ InRange(DeclCells[i])) => Rendered

\* A rung has rendered although it lists a cell on a branch row that lies
\* beyond the declared rows or cols.
C6_Witness ==
    /\ Rendered
    /\ \E i \in 1..Len(DeclCells) :
          /\ Beyond(DeclCells[i]) /\ CellRow(DeclCells[i]) > 0
          /\ CellCol(DeclCells[i]) >= 0 /\ CellCol(DeclCells[i]) < DeclCols
    /\ rungHtml.connectors = <<>>

C8_SingleRow ==
    (Rendered /\ DeclRows = 1) =>
        /\ Len(rungHtml.rows) = 1
        /\ "ladder-row-main" \in rungHtml.rows[1].classes
        /\ \A k \in 1..Len(rungHtml.rows) :
              "ladder-row-branch" \notin rungHtml.rows[k].classes
        /\ rungHtml.connectors = <<>>

\* A rung without a rows field has rendered although it lists a cell at a
\* row > 0.
C8_Witness ==
    /\ Rendered
    /\ "rows" \notin DOMAIN rung
    /\ \E i \in 1..Len(DeclCells) : CellRow(DeclCells[i]) > 0

-----------------------------------------------------------------------------
(* Properties of the display *)

\* The positions <<child, row block, entry>> of the .ladder-cell elements of
\* the document.
CellPositions ==
    UNION {UNION {{<<k, r, c>> : c \in {j \in DOMAIN container[k].rows[r].entries :
                        "ladder-cell" \in container[k].rows[r].entries[j].classes}} :
                    r \in DOMAIN container[k].rows} :
             k \in {j \in DOMAIN container : "ladder-rung" \in container[j].classes}}

CellOf(pos) == container[pos[1]].rows[pos[2]].entries[pos[3]]

TagsOf(el) == el.classes \cap StateTags

IsOn(el)  == TagsOf(el) = {"MB_ladderon"}
IsOff(el) == TagsOf(el) = {"MB_ladderoff"}

\* The addresses a rendered cell carries: the runs of its data-addresses
\* attribute between the commas.
Monitored(cell) ==
    IF ~cell.hasDataAddresses THEN {}
    ELSE {Str(cell.dataAddresses[i]) :
            i \in {j \in 1..Len(cell.dataAddresses) : cell.dataAddresses[j] # COMMA}}

\* The address map gives the address boolean true or a number other than 0.
TurnsOn(m, a) ==
    /\ a \in DOMAIN m
    /\ \/ m[a] = BoolValue(TRUE)
       \/ m[a].t = "number" /\ m[a].n # 0

AfterUpdate == call.op = "updateCellStates"

AfterRender == call.op = "renderToContainer" /\ call.found

X1True == [a \in {X1} |-> BoolValue(TRUE)]

\* C1 (as claimed): after the scenario program (cells that declare X1 and Y1
\* through `addr`) is rendered and updateCellStates({X1: true}) is called,
\* the cell at (0,0) is tagged on and every other cell is tagged off.
C1_AddrCellTurnsOn ==
    (currentProgram = ScenarioProgram /\ AfterUpdate /\ call.dataValues = X1True) =>
        \A pos \in CellPositions :
            IF CellOf(pos).dataRow = 0 /\ CellOf(pos).dataCol = 0
            THEN IsOn(CellOf(pos)) ELSE IsOff(CellOf(pos))

\* C2 (as claimed): for program data with a non-empty error field, with or
\* without subrdata, createRungList returns the error element only.
C2_ErrorOnly ==
    (AfterRender /\ call.programData # Null /\ "error" \in DOMAIN call.programData) =>
        /\ Len(container) = 1
        /\ container[1].classes = {"error-message"}
        /\ container[1].text = call.programData.error

\* C3: after updateCellStates(m), a rendered cell that carries monitored
\* addresses is tagged on exactly if m gives one of them boolean true or a
\* number other than 0, and is tagged off otherwise.
C3_OnIffTrueOrNonZero ==
    AfterUpdate =>
        \A pos \in CellPositions :
            Monitored(CellOf(pos)) # {} =>
                IF \E a \in Monitored(CellOf(pos)) : TurnsOn(call.dataValues, a)
                THEN IsOn(CellOf(pos)) ELSE IsOff(CellOf(pos))

\* After an update, one cell is on through a non-zero number while another
\* cell, whose address the map gives the number 0, is off.
C3_Witness ==
    /\ AfterUpdate
    /\ \E pos \in CellPositions :
          /\ IsOn(CellOf(pos))
          /\ \A a \in Monitored(CellOf(pos)) :
                a \in DOMAIN call.dataValues => call.dataValues[a].t = "number"
    /\ \E pos \in CellPositions :
          /\ IsOff(CellOf(pos))
          /\ \E a \in Monitored(CellOf(pos)) :
                a \in DOMAIN call.dataValues /\ call.dataValues[a] = NumValue(0)

\* C4: in every state, every rendered cell carries exactly one of the two
\* state tags, and the svg of the cell and each primitive inside it carry
\* that tag and not the other.
C4_NoPartialHighlight ==
    \A pos \in CellPositions :
        LET cell == CellOf(pos)
        IN  /\ Cardinality(TagsOf(cell)) = 1
            /\ cell.svg.node = "svg" =>
                  /\ TagsOf(cell.svg) = TagsOf(cell)
                  /\ \A i \in DOMAIN cell.svg.prims :
                        TagsOf(cell.svg.prims[i]) = TagsOf(cell)

\* A block cell has been turned on: its rect and text are on as well.
C4_Witness ==
    \E pos \in CellPositions :
        /\ IsOn(CellOf(pos))
        /\ \E i \in DOMAIN CellOf(pos).svg.prims :
              /\ CellOf(pos).svg.prims[i].node = "rect"
              /\ IsOn(CellOf(pos).svg.prims[i])

\* C10: in the state reached by updateCellStates(m), a second call of
\* updateCellStates(m) changes nothing in the document: no tag, no value
\* text, no visibility of a value.
C10_Idempotent ==
    AfterUpdate =>
        container = [k \in DOMAIN container |->
                        UpdateElement(container[k], call.dataValues)]

\* An update has turned a cell on and made its value visible.
C10_Witness ==
    /\ AfterUpdate
    /\ \E pos \in CellPositions :
          /\ IsOn(CellOf(pos))
          /\ CellOf(pos).cellValue.display = "block"
    /\ \E pos \in CellPositions :
          /\ IsOff(CellOf(pos))
          /\ CellOf(pos).cellValue.display = "none"
          /\ CellOf(pos).cellValue.textContent # EmptyStr

-----------------------------------------------------------------------------
(* SubrDispControl, row-list variant: the renderer that lays the cells of a
   rung out row by row and tests block symbols itself *)

NoSvg == [node |-> "#none", classes |-> {}, prims |-> <<>>]

\* The text of a coordinate in a template literal: `${cell.row}`.
CoordText(cell, name) ==
    IF name \in DOMAIN cell THEN ToString(cell[name]) ELSE "undefined"

\* createCellHtml(cell) of the row-list variant, as the element the HTML
\* parser builds from it.
createCellHtmlV1(cell) ==
    LET symbol    == Field(cell, "symbol", "il")
        address   == Field(cell, "addr", EmptyStr)
        addresses == Field(cell, "addrs", <<>>)
        opcode    == Field(cell, "opcode", EmptyStr)
        params    == Field(cell, "params", <<>>)
        cellType  == Field(cell, "type", "unknown")
        isBlock   == cellType = "block" \/ isBlockSymbol(symbol)
        svgHtml   == getSymbol(symbol, "MB_ladderoff")
    IN  IF CellThrows(cell) THEN [node |-> "TypeError"] ELSE
        [node       |-> "div",
         id         |-> <<"cell", CoordText(cell, "row"), CoordText(cell, "col")>>,
         classes    |-> {IF isBlock THEN "ladder-block" ELSE "ladder-cell",
                         "MB_ladderoff"},
         hasDataAddresses |-> TRUE,
         dataAddresses    |-> AttrValue(Join(addresses, COMMA)),
         dataOpcode |-> AttrValue(opcode),
         svg        |-> IF isBlockSymbol(symbol) THEN NoSvg ELSE svgHtml,
         blockTitle |-> IF isBlock THEN TextContent(opcode) ELSE NoText,
         paramsDisplay  |-> IF isBlock
                            THEN TextContent(Join(SliceTo(params, 3), SPACE))
                            ELSE NoText,
         addressDisplay |-> IF address # EmptyStr THEN TextContent(address)
                            ELSE NoText,
         cellValue  |-> [textContent |-> EmptyStr, display |-> "none"]]

\* rowCells.sort((a, b) => (a.col || 0) - (b.col || 0)): a stable insertion
\* of cell c into the sorted list.
RECURSIVE InsertByCol(_, _)
InsertByCol(sorted, c) ==
    IF Len(sorted) = 0 THEN <<c>>
    ELSE IF Field(sorted[Len(sorted)], "col", 0) <= Field(c, "col", 0)
    THEN Append(sorted, c)
    ELSE Append(InsertByCol(SubSeq(sorted, 1, Len(sorted) - 1), c),
                sorted[Len(sorted)])

RECURSIVE SortByCol(_, _)
SortByCol(cells, k) ==
    IF k = 0 THEN <<>>
    ELSE InsertByCol(SortByCol(cells, k - 1), cells[k])

PowerRail(side) == [node |-> "div", classes |-> {"power-rail", side}]

\* One <div class="ladder-row"> of the row-list variant: the cells of the
\* row in column order, between the power rails on row 0.
RowHtmlV1(cells, row) ==
    LET rowCells == SelectSeq(cells, LAMBDA c : Field(c, "row", 0) = row)
        sorted   == SortByCol(rowCells, Len(rowCells))
        cellsEl  == [j \in 1..Len(sorted) |-> createCellHtmlV1(sorted[j])]
    IN  [node    |-> "div",
         classes |-> {"ladder-row"},
         dataRow |-> row,
         entries |-> IF row = 0
                     THEN <<PowerRail("left")>> \o cellsEl \o <<PowerRail("right")>>
                     ELSE cellsEl]

\* createRungHtml(rung) of the row-list variant, or the TypeError that the
\* markup of a cell throws.
createRungHtmlV1(r) ==
    LET cells == Field(r, "cells", <<>>)
        rows  == RowsOf(r)
    IN  IF \E i \in 1..Len(cells) :
              /\ Field(cells[i], "row", 0) \in 0..(rows - 1)
              /\ CellThrows(cells[i])
        THEN [status |-> "TypeError"] ELSE
        [status  |-> "ok",
         node    |-> "div",
         classes |-> {"ladder-rung"},
         id      |-> <<"rung", Field(r, "rungnum", 0)>>,
         comment |-> IF Field(r, "comment", EmptyStr) # EmptyStr
                     THEN TextContent(r.comment) ELSE NoText,
         rows    |-> [k \in 1..rows |-> RowHtmlV1(cells, k - 1)]]

\* createRungList(programData) of the row-list variant after its call of
\* setProgram.
createRungListV1(programData) ==
    IF programData = Null \/ "subrdata" \notin DOMAIN programData
    THEN [status |-> "ok", children |-> <<NoProgramHtml>>]
    ELSE IF Field(programData, "error", EmptyStr) # EmptyStr
    THEN [status |-> "ok", children |-> <<ErrorHtml(programData.error)>>]
    ELSE IF Len(programData.subrdata) = 0
    THEN [status |-> "ok", children |-> <<NoRungsHtml>>]
    ELSE IF \E k \in 1..Len(programData.subrdata) :
                createRungHtmlV1(programData.subrdata[k]).status # "ok"
    THEN [status |-> "TypeError"]
    ELSE [status |-> "ok",
          children |-> [k \in 1..Len(programData.subrdata) |->
                           createRungHtmlV1(programData.subrdata[k])]]

\* cell.querySelectorAll('.MB_ladderoff, .MB_ladderon').forEach(...): the
\* svg and its descendants that carry a state tag get the new tag.
UpdateSvgV1(svg, tag) ==
    LET retag(el) == IF el.classes \cap StateTags # {}
                     THEN [el EXCEPT !.classes = SetStateTag(el.classes, tag)]
                     ELSE el
    IN  IF svg.node # "svg" THEN svg
        ELSE [retag(svg) EXCEPT
                !.prims = [i \in DOMAIN svg.prims |-> retag(svg.prims[i])]]

\* if (valueEl && displayValue !== null) { ... }: the value element of the
\* row-list variant is written and shown, and otherwise left as it is.
SetCellValueV1(cellValue, displayValue) ==
    IF displayValue # NullValue
    THEN [textContent |-> formatValue(displayValue), display |-> "block"]
    ELSE cellValue

\* The body of the forEach of updateCellStates of the row-list variant.
UpdateCellV1(cell, dataValues) ==
    IF cell.dataAddresses = EmptyStr THEN cell
    ELSE LET addresses == FilterNonEmpty(Split(cell.dataAddresses, COMMA))
         IN  IF Len(addresses) = 0 THEN cell
             ELSE LET scan == ScanAddresses(addresses, 1, dataValues, FALSE, NullValue)
                      tag  == IF scan.isOn THEN "MB_ladderon" ELSE "MB_ladderoff"
                  IN  [cell EXCEPT
                         !.classes = SetStateTag(cell.classes, tag),
                         !.svg = UpdateSvgV1(cell.svg, tag),
                         !.cellValue = SetCellValueV1(cell.cellValue,
                                                      scan.displayValue)]

\* document.querySelectorAll('.ladder-cell, .ladder-block').forEach(...) on
\* one child of the container.
UpdateElementV1(el, dataValues) ==
    IF "ladder-rung" \notin el.classes THEN el
    ELSE [el EXCEPT !.rows =
            [r \in DOMAIN el.rows |->
                [el.rows[r] EXCEPT !.entries =
                    [c \in DOMAIN el.rows[r].entries |->
                        IF el.rows[r].entries[c].classes
                              \cap {"ladder-cell", "ladder-block"} # {}
                        THEN UpdateCellV1(el.rows[r].entries[c], dataValues)
                        ELSE el.rows[r].entries[c]]]]]

-----------------------------------------------------------------------------
(* Display specification of the row-list variant *)

\* Program data rendered by the row-list variant: absent, an empty rung
\* list, the one-cell programs and a program of a monitored contact and a
\* monitored block.
ProgramsV1 ==
    {Null, [subrdata |-> <<>>]}
      \cup {[addresses |-> <<X1, Y1>>, subrdata |-> <<SpecRung(<<c>>)>>] :
              c \in SpecCells}
      \cup {[addresses |-> <<X1, Y1>>,
             subrdata |-> <<SpecRung(<<[addrs |-> <<X1>>],
                                       [symbol |-> "compare", type |-> "block",
                                        addrs |-> <<X1, Y1>>]>>)>>]}

\* renderToContainer(containerId, programData) of the row-list variant.
RenderToContainerV1(containerId, programData) ==
    LET html == createRungListV1(programData)
        prog == setProgram(programData, currentAddresses)
    IN  IF containerId # "ladder-display"
        THEN /\ call' = [op |-> "renderToContainer", found |-> FALSE]
             /\ UNCHANGED <<currentProgram, currentAddresses, container,
                            rung, rungHtml>>
        ELSE /\ currentProgram' = prog[1]
             /\ currentAddresses' = prog[2]
             /\ container' = IF html.status = "ok" THEN html.children ELSE container
             /\ call' = [op |-> "renderToContainer", found |-> TRUE,
                         programData |-> programData,
                         threw |-> html.status # "ok"]
             /\ UNCHANGED <<rung, rungHtml>>

\* updateCellStates(dataValues) of the row-list variant.
UpdateCellStatesV1(dataValues) ==
    /\ container' = [k \in DOMAIN container |->
                        UpdateElementV1(container[k], dataValues)]
    /\ call' = [op |-> "updateCellStates", dataValues |-> dataValues]
    /\ UNCHANGED <<currentProgram, currentAddresses, rung, rungHtml>>

NextV1 ==
    \/ \E p \in ProgramsV1 : RenderToContainerV1("ladder-display", p)
    \/ RenderToContainerV1("missing", Null)
    \/ \E m \in DataValueMaps : UpdateCellStatesV1(m)

SpecV1 == Init /\ [][NextV1]_vars

-----------------------------------------------------------------------------
(* Properties of the live update: history *)

\* The positions <<child, row, entry>> of the elements of the container
\* that the row-list variant updates.
CellPositionsV1 ==
    UNION {UNION {{<<k, r, c>> : c \in {j \in DOMAIN container[k].rows[r].entries :
                        container[k].rows[r].entries[j].classes
                            \cap {"ladder-cell", "ladder-block"} # {}}} :
                    r \in DOMAIN container[k].rows} :
             k \in {j \in DOMAIN container : "ladder-rung" \in container[j].classes}}

\* What the value element of a cell shows: its text, or nothing when it is
\* hidden or empty.
Shown(el) ==
    IF el.cellValue.display = "none" \/ el.cellValue.textContent = EmptyStr
    THEN NoText ELSE el.cellValue.textContent

\* What a cell shows of the data: its tag and its displayed value.
View(el) == [tags |-> TagsOf(el), value |-> Shown(el)]

\* The container of the row-list variant after currentProgram is rendered
\* afresh and updated once with the address map m.
FreshUpdatedV1(m) ==
    LET html == createRungListV1(currentProgram).children
    IN  [k \in DOMAIN html |-> UpdateElementV1(html[k], m)]

\* C11 (as claimed, against the row-list variant): after updateCellStates(m)
\* the tag and the displayed value of every cell that carries monitored
\* addresses are those that the freshly rendered diagram gets from m alone,
\* whatever updates came before.
C11_HistoryIndependent ==
    AfterUpdate =>
        \A pos \in CellPositionsV1 :
            Monitored(CellOf(pos)) # {} =>
                View(CellOf(pos))
                  = View(FreshUpdatedV1(call.dataValues)[pos[1]].rows[pos[2]].entries[pos[3]])

\* C12 (as claimed, against the row-list variant): after updateCellStates(m)
\* with m holding none of the monitored addresses of a cell, the cell is
\* tagged off and shows no value.
C12_AbsentTurnsOffAndHides ==
    AfterUpdate =>
        \A pos \in CellPositionsV1 :
            (/\ Monitored(CellOf(pos)) # {}
             /\ Monitored(CellOf(pos)) \cap DOMAIN call.dataValues = {})
                => /\ IsOff(CellOf(pos))
                   /\ Shown(CellOf(pos)) = NoText

-----------------------------------------------------------------------------
(* Load specification: setProgram, createRungList and getMonitorAddresses *)

MaxRungs == 2    \* longest rung list of a loaded program

\* The cell lists of a loaded rung: at most one cell per (row, col), every
\* cell inside the 1 x 2 grid of the rung.
LoadCellLists ==
    {<<>>,
     <<[row |-> 0, col |-> 0, addrs |-> <<X1>>]>>,
     <<[row |-> 0, col |-> 0, addrs |-> <<X1>>],
       [row |-> 0, col |-> 1, symbol |-> "out", addrs |-> <<Y1>>]>>}

\* The rung lists of at most MaxRungs rungs, numbered 1, 2, ...
LoadRungLists ==
    {[k \in DOMAIN cls |->
        [rungnum |-> k, rows |-> 1, cols |-> 2, cells |-> cls[k]]] :
     cls \in UNION {[1..n -> LoadCellLists] : n \in 0..MaxRungs}}

\* Program data: absent, without rung list, an error report, and rung lists
\* without and with an address list.
LoadPrograms ==
    {Null,
     [addresses |-> <<Y1>>],
     [error |-> CompileFailed],
     [error |-> CompileFailed, subrdata |-> <<>>]}
      \cup {[subrdata |-> rs] : rs \in LoadRungLists}
      \cup {[addresses |-> as, subrdata |-> rs] :
              as \in {<<X1>>, <<X1, Y1>>}, rs \in LoadRungLists}

\* getMonitorAddresses()
getMonitorAddresses == currentAddresses

\* setProgram(programData)
SetProgram(programData) ==
    LET prog == setProgram(programData, currentAddresses)
    IN  /\ currentProgram' = prog[1]
        /\ currentAddresses' = prog[2]
        /\ call' = [op |-> "setProgram", programData |-> programData]
        /\ UNCHANGED <<container, rung, rungHtml>>

\* createRungList(programData): the call of setProgram and the markup
\* returned.
CreateRungList(programData) ==
    LET prog == setProgram(programData, currentAddresses)
    IN  /\ currentProgram' = prog[1]
        /\ currentAddresses' = prog[2]
        /\ call' = [op |-> "createRungList", programData |-> programData,
                    result |-> createRungList(programData)]
        /\ UNCHANGED <<container, rung, rungHtml>>

NextLoad ==
    \/ \E p \in LoadPrograms : SetProgram(p)
    \/ \E p \in LoadPrograms : CreateRungList(p)

SpecLoad == Init /\ [][NextLoad]_vars

\* The address list of program data p, empty when p is absent or has none.
AddressListOf(p) ==
    IF p # Null /\ "addresses" \in DOMAIN p THEN p.addresses ELSE <<>>

Loaded == call.op \in {"setProgram", "createRungList"}

\* C13 (as claimed): after setProgram(p) or createRungList(p), for any p,
\* getMonitorAddresses returns the address list of p, empty when p has
\* none, and never the list of a program loaded before.
C13_AddressesReplaced ==
    Loaded => getMonitorAddresses = AddressListOf(call.programData)

AfterCreateRungList == call.op = "createRungList"

HasRungList(p) == p # Null /\ "subrdata" \in DOMAIN p

\* The markup is the one placeholder element with the given text.
IsPlaceholder(result, text) ==
    /\ result.status = "ok"
    /\ Len(result.children) = 1
    /\ result.children[1].classes = {"no-program"}
    /\ result.children[1].text = Str(text)

\* C14: createRungList does not throw for program data that is absent or
\* has no rung list and returns the "No Program Loaded" placeholder; for an
\* empty rung list without error it returns the "No rungs in this
\* subroutine" placeholder; either markup holds no rung element.
C14_Placeholders ==
    AfterCreateRungList =>
        /\ ~HasRungList(call.programData)
              => IsPlaceholder(call.result, "No Program Loaded")
        /\ (/\ HasRungList(call.programData)
            /\ call.programData.subrdata = <<>>
            /\ "error" \notin DOMAIN call.programData)
              => IsPlaceholder(call.result, "No rungs in this subroutine")

\* createRungList has returned the placeholder of an empty rung list after
\* a program with rungs was loaded.
C14_Witness ==
    /\ AfterCreateRungList
    /\ HasRungList(call.programData)
    /\ call.programData.subrdata = <<>>
    /\ "error" \notin DOMAIN call.programData
    /\ IsPlaceholder(call.result, "No rungs in this subroutine")
    /\ currentAddresses # <<>>

\* The positions <<child, row, entry>> of the cell elements of a markup.
CellPositionsIn(children) ==
    UNION {UNION {{<<k, r, c>> : c \in {j \in DOMAIN children[k].rows[r].entries :
                        "ladder-cell" \in children[k].rows[r].entries[j].classes}} :
                    r \in DOMAIN children[k].rows} :
             k \in {j \in DOMAIN children : "ladder-rung" \in children[j].classes}}

\* C18 (as claimed): the ids of the cell elements that one createRungList
\* call produces are pairwise distinct, for programs of one or more rungs
\* whose cells have unique in-range coordinates within each rung.
C18_CellIdsUnique ==
    (AfterCreateRungList /\ call.result.status = "ok") =>
        LET ch == call.result.children
        IN  \A p, q \in CellPositionsIn(ch) :
                ch[p[1]].rows[p[2]].entries[p[3]].id
                    = ch[q[1]].rows[q[2]].entries[q[3]].id => p = q

-----------------------------------------------------------------------------
(* Cell specification: getSymbol, isBlockSymbol and createCellHtml applied
   to one argument *)

MaxParams == 5    \* longest params list of a cell

\* The names of the public API of LadSymbols.
LadSymbolsApi == {"getSymbol", "getSymbolNames", "WIDTH", "HEIGHT"}

\* SubrDispControl.isBlockSymbol(symbol) of the grid renderer:
\* return LadSymbols.isBlockSymbol(symbol), which throws a TypeError when
\* LadSymbols has no such function.
isBlockSymbolDelegate(symbol) ==
    IF "isBlockSymbol" \in LadSymbolsApi
    THEN [status |-> "ok", value |-> isBlockSymbol(symbol)]
    ELSE [status |-> "TypeError"]

\* Symbol names: the defined ones, inherited property names, undefined (the
\* property key "undefined") and names that are not defined.
SymbolInputs ==
    SymbolNames \cup ObjectProtoFunctions \cup {"undefined", "NOC", "coil", "tmrx"}

\* The params list "1", "2", ..., "n".
ParamList(n) == [i \in 1..n |-> Str(ToString(i))]

\* Cells without and with symbol, type and params.
CellInputs ==
    LET withParams == {[params |-> ParamList(n)] : n \in 0..MaxParams}
        withType   == withParams
                        \cup {[params |-> c.params, type |-> t] :
                                c \in withParams, t \in {"block", "coil"}}
    IN  withType
          \cup {[f \in DOMAIN c \cup {"symbol"} |->
                    IF f = "symbol" THEN sym ELSE c[f]] :
                c \in withType, sym \in {"noc", "compare", "tmr"}}

GetSymbol(symbolName, stateClass) ==
    /\ call' = [op |-> "getSymbol", symbolName |-> symbolName,
                stateClass |-> stateClass,
                result |-> getSymbol(symbolName, stateClass)]
    /\ UNCHANGED <<currentProgram, currentAddresses, container, rung, rungHtml>>

IsBlockSymbol(symbol) ==
    /\ call' = [op |-> "isBlockSymbol", symbol |-> symbol,
                result |-> isBlockSymbolDelegate(symbol)]
    /\ UNCHANGED <<currentProgram, currentAddresses, container, rung, rungHtml>>

CreateCellHtml(cell) ==
    /\ call' = [op |-> "createCellHtml", cell |-> cell,
                result |-> createCellHtml(cell)]
    /\ UNCHANGED <<currentProgram, currentAddresses, container, rung, rungHtml>>

CreateCellHtmlV1(cell) ==
    /\ call' = [op |-> "createCellHtmlV1", cell |-> cell,
                result |-> createCellHtmlV1(cell)]
    /\ UNCHANGED <<currentProgram, currentAddresses, container, rung, rungHtml>>

NextCell ==
    \/ \E name \in SymbolInputs, tag \in StateTags : GetSymbol(name, tag)
    \/ \E name \in SymbolInputs : IsBlockSymbol(name)
    \/ \E cell \in CellInputs : CreateCellHtml(cell)
    \/ \E cell \in CellInputs : CreateCellHtmlV1(cell)

SpecCell == Init /\ [][NextCell]_vars

\* The cell is rendered as a block.
IsBlockCell(cell) ==
    \/ Field(cell, "symbol", "il") \in BlockSymbols
    \/ Field(cell, "type", "unknown") = "block"

\* The params that a cell element displays, '' when it displays none.
ShownParams(el) == IF el.paramsDisplay = NoText THEN EmptyStr ELSE el.paramsDisplay

\* C15 (as claimed): a cell rendered as a block displays exactly its first
\* four params (all of them when there are fewer), in order, joined by
\* single spaces.
C15_FirstFourParams ==
    (call.op \in {"createCellHtml", "createCellHtmlV1"} /\ IsBlockCell(call.cell)) =>
        LET params == call.cell.params
            n == IF Len(params) < 4 THEN Len(params) ELSE 4
        IN  ShownParams(call.result) = Join(SubSeq(params, 1, n), SPACE)

\* C16 (as claimed): getSymbol(name, tag) does not throw and returns the
\* graphic of "il" for every name that is not a defined symbol, the names of
\* inherited object properties and undefined included; a cell without
\* symbol is rendered with that graphic.
C16_FallbackGlyph ==
    /\ (call.op = "getSymbol" /\ call.symbolName \notin SymbolNames) =>
          /\ call.result.node # "TypeError"
          /\ call.result = SymbolFn("il", call.stateClass)
    /\ (call.op = "createCellHtml" /\ "symbol" \notin DOMAIN call.cell) =>
          call.result.svg = SymbolFn("il", "MB_ladderoff")

\* C17 (as claimed): SubrDispControl.isBlockSymbol(name), with the
\* LadSymbols at hand, does not throw and returns a boolean: true exactly
\* for the block instruction identifiers.
C17_IsBlockSymbolTotal ==
    call.op = "isBlockSymbol" =>
        /\ call.result.status = "ok"
        /\ call.result.value \in BOOLEAN
        /\ call.result.value <=> call.symbol \in BlockSymbols

-----------------------------------------------------------------------------
(* Properties of the displayed value and of the connectors *)

\* The addresses of a rendered cell in the order of their declaration.
DeclaredAddresses(cell) ==
    IF ~cell.hasDataAddresses THEN <<>>
    ELSE FilterNonEmpty(Split(cell.dataAddresses, COMMA))

\* The places in the address list at which the map m holds a number or a
\* value that is neither null nor a boolean.
ValuedPlaces(addrs, m) ==
    {k \in 1..Len(addrs) :
        /\ addrs[k] \in DOMAIN m
        /\ m[addrs[k]].t \notin {"boolean", "null"}}

\* C19: after updateCellStates(m) the value element of a cell with
\* monitored addresses shows the value of the last declared address that m
\* maps to a number or to a non-null non-boolean value, a zero included,
\* and is hidden when there is no such address.
C19_LastValueShown ==
    AfterUpdate =>
        \A pos \in CellPositions :
            LET cell   == CellOf(pos)
                addrs  == DeclaredAddresses(cell)
                valued == ValuedPlaces(addrs, call.dataValues)
            IN  Len(addrs) > 0 =>
                  IF valued = {}
                  THEN cell.cellValue.display = "none"
                  ELSE LET last == CHOOSE k \in valued : \A j \in valued : j <= k
                       IN  /\ cell.cellValue.display = "block"
                           /\ cell.cellValue.textContent
                                = formatValue(call.dataValues[addrs[last]])

\* An update has given the first address of a cell 1.5 and the second 0:
\* the cell shows "0".
C19_Witness ==
    /\ AfterUpdate
    /\ DOMAIN call.dataValues = {X1, Y1}
    /\ call.dataValues[X1] = NumValue(1500)
    /\ call.dataValues[Y1] = NumValue(0)
    /\ \E pos \in CellPositions :
          /\ DeclaredAddresses(CellOf(pos)) = <<X1, Y1>>
          /\ CellOf(pos).cellValue = [textContent |-> <<"0">>, display |-> "block"]

\* C20 (as claimed): every connector of a rendered rung, whatever the
\* coordinates of the cells, has a column inside [0, cols), start row 0 and
\* an end row e with 0 < e < rows.
C20_ConnectorsInGrid ==
    Rendered =>
        \A k \in 1..Len(rungHtml.connectors) :
            LET conn == rungHtml.connectors[k]
            IN  /\ 0 <= conn.dataCol /\ conn.dataCol < DeclCols
                /\ conn.dataStartRow = 0
                /\ 0 < conn.dataEndRow /\ conn.dataEndRow < DeclRows

-----------------------------------------------------------------------------
(* Address specification: the addresses of a cell written to data-addresses
   by createCellHtml and read back by updateCellStates *)

MaxAddrLen == 2    \* longest address, in runs of characters

\* The runs of characters of an address: letters and digits, a comma, a
\* double quote.
AddrTokens == {"X1", COMMA, QUOTE}

\* The address strings: one to MaxAddrLen runs.
AddrStrings == UNION {[1..n -> AddrTokens] : n \in 1..MaxAddrLen}

\* The addrs lists of a cell: one address, or one address before Y1.
AddrLists ==
    UNION {{<<a>>, <<a, Y1>>} : a \in AddrStrings}

\* The program of one rung with the one cell that monitors addrs.
AddrProgram(addrs) ==
    [subrdata |-> <<SpecRung(<<[symbol |-> "noc", addrs |-> addrs]>>)>>]

\* The address map {a: true}.
OnlyTrue(a) == [x \in {a} |-> BoolValue(TRUE)]

NextAddr ==
    \/ \E addrs \in AddrLists :
          RenderToContainer("ladder-display", AddrProgram(addrs))
    \/ RenderToContainer("missing", Null)
    \/ \E a \in AddrStrings \cup {Y1} : UpdateCellStates(OnlyTrue(a))

SpecAddr == Init /\ [][NextAddr]_vars

\* The addrs list of the one cell of the rendered program.
DeclaredAddrs == currentProgram.subrdata[1].cells[1].addrs

SetOf(seq) == {seq[k] : k \in 1..Len(seq)}

\* C21 (as claimed): for the rendered cell of a program whose cell has a
\* non-empty addrs list, the addresses that updateCellStates reads back
\* from data-addresses are the declared ones, and after an update with true
\* for a declared address the cell is tagged on.
C21_AddressRoundTrip ==
    (currentProgram # Null /\ (AfterRender \/ AfterUpdate)) =>
        \A pos \in CellPositions :
            /\ SetOf(DeclaredAddresses(CellOf(pos))) = SetOf(DeclaredAddrs)
            /\ (AfterUpdate /\ DOMAIN call.dataValues \subseteq SetOf(DeclaredAddrs))
                  => IsOn(CellOf(pos))

-----------------------------------------------------------------------------
(* Properties of rendering: live state *)

\* The cell element and every element of its symbol carry the tag off and
\* no tag on, and the value element shows nothing.
FreshlyOff(el) ==
    /\ IsOff(el)
    /\ el.svg.classes \cap StateTags \subseteq {"MB_ladderoff"}
    /\ \A i \in DOMAIN el.svg.prims :
          el.svg.prims[i].classes \cap StateTags \subseteq {"MB_ladderoff"}
    /\ Shown(el) = NoText

\* C22: right after a renderToContainer that has assigned the markup, every
\* rendered cell is tagged off and shows no value, whatever updates came
\* before the render.
C22_RenderResets ==
    (AfterRender /\ ~call.threw) =>
        \A pos \in CellPositions : FreshlyOff(CellOf(pos))

\* A program with addresses has been rendered into the container: its
\* monitored block cell of two addresses is off and shows nothing.
C22_Witness ==
    /\ AfterRender /\ ~call.threw
    /\ currentAddresses = <<X1, Y1>>
    /\ \E pos \in CellPositions :
          /\ Monitored(CellOf(pos)) = {X1, Y1}
          /\ FreshlyOff(CellOf(pos))

=============================================================================
